---- MODULE Spec2Model ----
(***************************************************************************)
(* A model of fitparse.py: the record stream produced by parse_files and   *)
(* the commands that fold it (sleep, pulse, steps, stress, dump).          *)
(*                                                                         *)
(* Instants are integers counting milliseconds since the epoch, so that a  *)
(* datetime may carry a fraction of a second; a date is a day number.      *)
(* An optional value (a field that may be absent, a variable that may be   *)
(* None) is a sequence of length 0 or 1.                                   *)
(***************************************************************************)
EXTENDS Integers, Sequences, FiniteSets, TLC

VARIABLES
    command,      \* args.command: the view that runs
    args,         \* the caller's argument object: [since, until]
    tzoffset,     \* the local timezone's offset from UTC, in seconds
    pc,           \* "start", "scan", "done" or "fault" (an uncaught exception)
    stream,       \* the records parse_file has yielded so far, in file order
    rows,         \* rows of the running command
    rowidx,       \* history: for each row, the position in stream of its record
    started_at,   \* plot_sleep_history
    finished_at,  \* plot_sleep_history
    since,        \* plot_pulse_history: the saved bounds
    until,
    last_ts,      \* plot_pulse_history
    last_ts_16,   \* plot_pulse_history
    output,       \* the table handed to print_table
    plot,         \* args.plot
    plotted,      \* whether the plotting functions were called with data
    ds,           \* plot_steps_history: date -> activity_type -> ActivityRecord
    filelog,      \* parse_files: what became of each file opened so far
    open,         \* parse_file: the files whose Stream is open
    yielded       \* parse_files: the records passed on to the command

vars == <<command, args, tzoffset, pc, stream, rows, rowidx, started_at,
          finished_at, since, until, last_ts, last_ts_16, output, plot,
          plotted, ds, filelog, open, yielded>>

\* What the sleep and pulse views leave alone while they read records.
restVars == <<plot, plotted, ds, filelog, open, yielded>>

----------------------------------------------------------------------------
(* Bounds and input sets                                                   *)

MaxMsgs == 4

\* The number of input files of a run.
MaxFiles == 2

None == <<>>
Some(v) == <<v>>
Val(o) == o[1]

MillisPerSecond == 1000
SecondsPerHour == 3600
SecondsPerDay == 24 * SecondsPerHour
MillisPerDay == SecondsPerDay * MillisPerSecond

\* Instants of event records: 00:00:00.0 on day 0, 13:01:40.5 on day 0 and
\* 02:03:21.0 on day 1 (26 h 3 min 21 s after the first).
SleepTimes == {0, 46900500, 93801000}

ScoreValues == {7, 9}

\* Instants of monitoring records: 10:00:00.5 on day 0 and 09:00:00.0 on day 1.
PulseTimes == {36000500, 118800000}

\* Values of the 16-bit counter timestamp_16.
Counter16 == {5, 65535}

HeartRates == {60}

\* Dates a since / until bound may name.
BoundDates == {1}

TzOffsets == {3600}

----------------------------------------------------------------------------
(* Records (FITMsg)                                                        *)

Msg(g, et, ts, t16, hr, sc) ==
    [group_name |-> g, event_type |-> et, timestamp |-> ts,
     timestamp_16 |-> t16, heart_rate |-> hr, overall_sleep_score |-> sc,
     stress_level_time |-> None, stress_level_value |-> None,
     steps |-> None, activity_type |-> None, active_calories |-> None,
     distance |-> None]

EventMsgs ==
    {Msg("event_mesgs", et, ts, None, None, None) :
        et \in {"start", "stop"}, ts \in {None} \cup {Some(t) : t \in SleepTimes}}

SleepAssessmentMsgs ==
    {Msg("sleep_assessment_mesgs", "", None, None, None, sc) :
        sc \in {None} \cup {Some(s) : s \in ScoreValues}}

MonitoringMsgs ==
    {Msg("monitoring_mesgs", "", ts, s[1], s[2], None) :
        ts \in {None} \cup {Some(t) : t \in PulseTimes},
        s \in {<<None, None>>, <<Some(5), None>>}
              \cup {<<Some(c), Some(h)>> : c \in Counter16, h \in HeartRates}}

\* A monitoring record with none of the fields the views read.
OtherMsg == Msg("monitoring_mesgs", "", None, None, None, None)

has_fields(msg, flds) == \A f \in flds : msg[f] # None

timestamp(msg) ==
    IF msg.group_name = "stress_level_mesgs"
    THEN msg.stress_level_time
    ELSE msg.timestamp

\* datetime.date() of an instant held in UTC
Date(t) == t \div MillisPerDay

\* Mutant: the since bound excludes its own date.
timestamp_in_Exclusive(msg, s, u) ==
    IF timestamp(msg) = None THEN TRUE
    ELSE IF s # None /\ Date(Val(timestamp(msg))) <= Val(s) THEN FALSE
    ELSE IF u # None /\ Date(Val(timestamp(msg))) > Val(u) THEN FALSE
    ELSE TRUE

timestamp_in(msg, s, u) ==
    IF timestamp(msg) = None THEN TRUE
    ELSE IF s # None /\ Date(Val(timestamp(msg))) < Val(s) THEN FALSE
    ELSE IF u # None /\ Date(Val(timestamp(msg))) > Val(u) THEN FALSE
    ELSE TRUE

NoBounds == [since |-> None, until |-> None]

----------------------------------------------------------------------------
(* parse_files                                                             *)

\* Whether parse_files yields msg to the command (it drops a record whose
\* timestamp lies outside args.since .. args.until).
parse_files_yields(msg, a) == timestamp_in(msg, a.since, a.until)

----------------------------------------------------------------------------
(* plot_sleep_history                                                      *)

\* round(num / den, 2), in hundredths, for a den that is a multiple of 100.
\* A tie goes to the even neighbour; on the float the code rounds, a tie's
\* side depends on the float's binary expansion, and no input set of this
\* module produces one.
RoundHundredths(num, den) ==
    LET d == den \div 100
        q == num \div d
        r == num % d
    IN  IF 2 * r > d \/ (2 * r = d /\ q % 2 = 1) THEN q + 1 ELSE q

\* (f - s).seconds: a timedelta is normalised to days, 0 <= seconds < 86400
\* and microseconds, and .seconds is the middle component alone.
timedelta_seconds(s, f) == ((f - s) % MillisPerDay) \div MillisPerSecond

\* duration = round((finished_at - started_at).seconds / 3600., 2)
SleepDuration(s, f) == RoundHundredths(timedelta_seconds(s, f), SecondsPerHour)

\* Mutant: a start while a session is open keeps the earlier start.
SleepOnStart_KeepOpen(st, msg) ==
    IF st.started_at # None THEN st
    ELSE [st EXCEPT !.started_at = timestamp(msg)]

\* event_type == "start": started_at = msg.timestamp
SleepOnStart(st, msg) == [st EXCEPT !.started_at = timestamp(msg)]

\* Mutant: the session is keyed by the date of its start.
SleepOnStop_StartDate(st, msg) ==
    IF st.started_at = None THEN st
    ELSE IF timestamp(msg) = None
         THEN [st EXCEPT !.finished_at = None, !.pc = "fault"]
         ELSE [st EXCEPT
                 !.finished_at = timestamp(msg),
                 !.rows = Append(@, <<Date(Val(st.started_at)),
                                      SleepDuration(Val(st.started_at),
                                                    Val(timestamp(msg))),
                                      0>>)]

\* event_type == "stop". A stop record without a timestamp makes
\* finished_at - started_at raise TypeError.
SleepOnStop(st, msg) ==
    IF st.started_at = None THEN st
    ELSE IF timestamp(msg) = None
         THEN [st EXCEPT !.finished_at = None, !.pc = "fault"]
         ELSE [st EXCEPT
                 !.finished_at = timestamp(msg),
                 !.rows = Append(@, <<Date(Val(timestamp(msg))),
                                      SleepDuration(Val(st.started_at),
                                                    Val(timestamp(msg))),
                                      0>>)]

\* sleep_assessment_mesgs. A record without overall_sleep_score raises
\* KeyError.
SleepOnScore(st, msg) ==
    IF st.finished_at # None /\ st.rows # <<>>
    THEN IF msg.overall_sleep_score = None
         THEN [st EXCEPT !.pc = "fault"]
         ELSE [st EXCEPT !.rows[Len(st.rows)][3] = Val(msg.overall_sleep_score)]
    ELSE st

\* The body of the loop over parse_files(args).
SleepStep(st, msg) ==
    IF msg.group_name = "event_mesgs"
    THEN IF msg.event_type = "start" THEN SleepOnStart(st, msg)
         ELSE IF msg.event_type = "stop" THEN SleepOnStop(st, msg)
         ELSE st
    ELSE IF msg.group_name = "sleep_assessment_mesgs" THEN SleepOnScore(st, msg)
    ELSE st

\* Mutant: a session whose score is still the placeholder is not printed.
SleepOutput_DropUnscored(rs) ==
    LET Scored(r) == r[3] # 0 IN SelectSeq(rs, Scored)

\* table = np.array(rows); print_table(table)
SleepOutput(rs) == rs

SleepInputs == EventMsgs \cup SleepAssessmentMsgs \cup {OtherMsg}

SleepState ==
    [pc |-> pc, rows |-> rows, started_at |-> started_at,
     finished_at |-> finished_at]

SleepBegin ==
    /\ command = "sleep"
    /\ pc = "start"
    /\ pc' = "scan"
    /\ rows' = <<>>
    /\ started_at' = None
    /\ finished_at' = None
    /\ UNCHANGED <<command, args, tzoffset, stream, rowidx, since, until,
                   last_ts, last_ts_16, output>>
    /\ UNCHANGED restVars

SleepMsg ==
    /\ command = "sleep"
    /\ pc = "scan"
    /\ Len(stream) < MaxMsgs
    /\ \E msg \in SleepInputs :
         LET st == IF parse_files_yields(msg, args)
                   THEN SleepStep(SleepState, msg)
                   ELSE SleepState
         IN  /\ stream' = Append(stream, msg)
             /\ pc' = st.pc
             /\ rows' = st.rows
             /\ started_at' = st.started_at
             /\ finished_at' = st.finished_at
             /\ rowidx' = IF Len(st.rows) > Len(rows)
                          THEN Append(rowidx, Len(stream) + 1)
                          ELSE rowidx
    /\ UNCHANGED <<command, args, tzoffset, since, until, last_ts,
                   last_ts_16, output>>
    /\ UNCHANGED restVars

\* The stream is exhausted: the table is printed, and plotted when there
\* are rows and --plot was given.
SleepEnd ==
    /\ command = "sleep"
    /\ pc = "scan"
    /\ pc' = "done"
    /\ output' = SleepOutput(rows)
    /\ plotted' = (rows # <<>> /\ plot)
    /\ UNCHANGED <<command, args, tzoffset, stream, rows, rowidx, started_at,
                   finished_at, since, until, last_ts, last_ts_16, plot, ds,
                   filelog, open, yielded>>

InitLocals ==
    /\ pc = "start"
    /\ stream = <<>>
    /\ rows = <<>>
    /\ rowidx = <<>>
    /\ started_at = None
    /\ finished_at = None
    /\ since = None
    /\ until = None
    /\ last_ts = None
    /\ last_ts_16 = None
    /\ output = <<>>
    /\ plotted = FALSE
    /\ ds = <<>>
    /\ filelog = <<>>
    /\ open = {}
    /\ yielded = <<>>

\* The sleep command, run without --since and --until.
InitSleep ==
    /\ command = "sleep"
    /\ args = NoBounds
    /\ plot \in BOOLEAN
    /\ tzoffset \in TzOffsets
    /\ InitLocals

NextSleep == SleepBegin \/ SleepMsg \/ SleepEnd

SpecSleep == InitSleep /\ [][NextSleep]_vars

\* The sleep command, with and without --since, without --plot.
InitSleepRange ==
    /\ command = "sleep"
    /\ args \in [since : {None} \cup {Some(d) : d \in BoundDates}, until : {None}]
    /\ plot = FALSE
    /\ tzoffset \in TzOffsets
    /\ InitLocals

SpecSleepRange == InitSleepRange /\ [][NextSleep]_vars

----------------------------------------------------------------------------
(* plot_pulse_history                                                      *)

\* int(msg.timestamp.timestamp()): whole seconds since the epoch
TimestampSeconds(t) == t \div MillisPerSecond

\* datetime.utcfromtimestamp(real_ts).replace(tzinfo=utc).astimezone(): the
\* same instant, carried with the local offset.
LocalDatetime(real_ts, tz) == [instant |-> real_ts, utcoffset |-> tz]

\* local_ts.date()
LocalDate(dt) == (dt.instant + dt.utcoffset) \div SecondsPerDay

\* Mutant: the counter difference is taken modulo 2^16 (an unwrap).
PulseDelta_Unwrap(prev16, ts16) ==
    IF prev16 # None THEN (ts16 - Val(prev16)) % (2 ^ 16) ELSE 0

\* Mutant: the counter difference is taken without the guard.
PulseDelta_Signed(prev16, ts16) ==
    IF prev16 # None THEN ts16 - Val(prev16) ELSE 0

\* delta = 0; if last_ts_16 is not None and last_ts_16 < ts16:
\*     delta = ts16 - last_ts_16
PulseDelta(prev16, ts16) ==
    IF prev16 # None /\ Val(prev16) < ts16 THEN ts16 - Val(prev16) ELSE 0

\* Mutant: a full timestamp leaves the last-seen 16-bit counter in place.
PulseOnTimestamp_KeepCounter(st, msg) ==
    IF has_fields(msg, {"timestamp"})
    THEN [st EXCEPT !.last_ts = Some(TimestampSeconds(Val(timestamp(msg))))]
    ELSE st

\* if msg.has_fields("timestamp"): last_ts_16 = None; last_ts = int(...)
PulseOnTimestamp(st, msg) ==
    IF has_fields(msg, {"timestamp"})
    THEN [st EXCEPT !.last_ts_16 = None,
                    !.last_ts = Some(TimestampSeconds(Val(timestamp(msg))))]
    ELSE st

\* if msg.has_fields("timestamp_16", "heart_rate"): ... With last_ts None,
\* real_ts += delta raises TypeError when a delta is added, and
\* utcfromtimestamp(None) raises TypeError otherwise.
PulseOnSample(st, msg, s, u, tz) ==
    IF ~has_fields(msg, {"timestamp_16", "heart_rate"}) THEN st
    ELSE
    LET ts16 == Val(msg.timestamp_16)
        advance == st.last_ts_16 # None /\ Val(st.last_ts_16) < ts16
    IN  IF st.last_ts = None
        THEN IF advance
             THEN [st EXCEPT !.pc = "fault"]
             ELSE [st EXCEPT !.pc = "fault", !.last_ts_16 = Some(ts16)]
        ELSE
        LET real_ts == Val(st.last_ts) + PulseDelta(st.last_ts_16, ts16)
            local_ts == LocalDatetime(real_ts, tz)
            st2 == [st EXCEPT !.last_ts_16 = Some(ts16),
                              !.last_ts = Some(real_ts)]
        IN  IF s # None /\ LocalDate(local_ts) < Val(s) THEN st2
            ELSE IF u # None /\ LocalDate(local_ts) > Val(u) THEN st2
            ELSE [st2 EXCEPT !.rows = Append(@, <<local_ts, Val(msg.heart_rate)>>)]

\* The body of the loop over parse_files(args).
PulseStep(st, msg, s, u, tz) ==
    IF msg.group_name = "monitoring_mesgs"
    THEN PulseOnSample(PulseOnTimestamp(st, msg), msg, s, u, tz)
    ELSE st

\* Mutant: args keeps its bounds while the records are read.
PulseScanArgs_Kept(a) == a

\* args.since, args.until = None, None
PulseScanArgs(a) == NoBounds

\* table = np.array(rows); print_table(table, dt_format=DATETIME_FORMAT)
PulseOutput(rs) == rs

\* An event record, which the pulse view reads past.
PulseEventMsg == Msg("event_mesgs", "start", Some(118800000), None, None, None)

PulseInputs == MonitoringMsgs \cup {PulseEventMsg}

PulseState ==
    [pc |-> pc, rows |-> rows, last_ts |-> last_ts, last_ts_16 |-> last_ts_16]

PulseBegin ==
    /\ command = "pulse"
    /\ pc = "start"
    /\ pc' = "scan"
    /\ rows' = <<>>
    /\ last_ts' = None
    /\ last_ts_16' = None
    /\ since' = args.since
    /\ until' = args.until
    /\ args' = PulseScanArgs(args)
    /\ UNCHANGED <<command, tzoffset, stream, rowidx, started_at,
                   finished_at, output>>
    /\ UNCHANGED restVars

\* One turn of the loop, on the record msg.
PulseRead(msg) ==
    LET st == IF parse_files_yields(msg, args)
              THEN PulseStep(PulseState, msg, since, until, tzoffset)
              ELSE PulseState
    IN  /\ stream' = Append(stream, msg)
        /\ pc' = st.pc
        /\ rows' = st.rows
        /\ last_ts' = st.last_ts
        /\ last_ts_16' = st.last_ts_16
        /\ rowidx' = IF Len(st.rows) > Len(rows)
                     THEN Append(rowidx, Len(stream) + 1)
                     ELSE rowidx

PulseMsg ==
    /\ command = "pulse"
    /\ pc = "scan"
    /\ Len(stream) < MaxMsgs
    /\ \E msg \in PulseInputs : PulseRead(msg)
    /\ UNCHANGED <<command, args, tzoffset, started_at, finished_at, since,
                   until, output>>
    /\ UNCHANGED restVars

\* plot_hourly_data_with_lines(table[:, 0], table[:, 1], ...): np.array([])
\* has one dimension, so table[:, 0] raises IndexError when there is no row.
HourlyPlot(rs) ==
    IF rs = <<>> THEN [pc |-> "fault", plotted |-> FALSE]
    ELSE [pc |-> "done", plotted |-> TRUE]

\* The stream is exhausted: the table is printed, and plotted when --plot
\* was given.
PulseEnd ==
    /\ command = "pulse"
    /\ pc = "scan"
    /\ output' = PulseOutput(rows)
    /\ pc' = IF plot THEN HourlyPlot(rows).pc ELSE "done"
    /\ plotted' = (plot /\ HourlyPlot(rows).plotted)
    /\ UNCHANGED <<command, args, tzoffset, stream, rows, rowidx, started_at,
                   finished_at, since, until, last_ts, last_ts_16, plot, ds,
                   filelog, open, yielded>>

\* The pulse command, with or without --since and --until, without --plot.
InitPulse ==
    /\ command = "pulse"
    /\ plot = FALSE
    /\ args \in [since : {None} \cup {Some(d) : d \in BoundDates},
                 until : {None} \cup {Some(d) : d \in BoundDates}]
    /\ tzoffset \in TzOffsets
    /\ InitLocals

NextPulse == PulseBegin \/ PulseMsg \/ PulseEnd

SpecPulse == InitPulse /\ [][NextPulse]_vars

\* Three counter values, so that a chain of two deltas can be read.
ChainCounters == {5, 300, 65535}

\* Monitoring records with or without a full timestamp and with or without
\* a 16-bit counter and a heart rate.
ChainInputs ==
    {Msg("monitoring_mesgs", "", ts, None, None, None) :
        ts \in {None} \cup {Some(t) : t \in PulseTimes}}
    \cup {Msg("monitoring_mesgs", "", ts, Some(c), Some(h), None) :
            ts \in {None} \cup {Some(t) : t \in PulseTimes},
            c \in ChainCounters, h \in HeartRates}

PulseChainMsg ==
    /\ command = "pulse"
    /\ pc = "scan"
    /\ Len(stream) < MaxMsgs
    /\ \E msg \in ChainInputs : PulseRead(msg)
    /\ UNCHANGED <<command, args, tzoffset, started_at, finished_at, since,
                   until, output>>
    /\ UNCHANGED restVars

\* The pulse command without --since and --until, with or without --plot.
InitPulseChain ==
    /\ command = "pulse"
    /\ plot \in BOOLEAN
    /\ args = NoBounds
    /\ tzoffset \in TzOffsets
    /\ InitLocals

NextPulseChain == PulseBegin \/ PulseChainMsg \/ PulseEnd

SpecPulseChain == InitPulseChain /\ [][NextPulseChain]_vars

----------------------------------------------------------------------------
(* parse_file and parse_files, read by dump_messages                       *)

\* Instants of the records of the files: 00:00:01 on day 1, 00:00:00 on
\* day 2, 23:59:59 on day 3 and 00:00:00 on day 4.
PipeTimes ==
    {MillisPerDay + MillisPerSecond, 2 * MillisPerDay,
     4 * MillisPerDay - MillisPerSecond, 4 * MillisPerDay}

\* A stress record: its time is in stress_level_time.
StressMsg(ts, slt, v) ==
    [Msg("stress_level_mesgs", "", ts, None, None, None)
        EXCEPT !.stress_level_time = slt, !.stress_level_value = v]

\* Monitoring records with and without a timestamp, a stress record whose
\* timestamp field and stress_level_time lie on different days, and a
\* stress record with a timestamp field and no stress_level_time.
PipeInputs ==
    {Msg("monitoring_mesgs", "", ts, None, None, None) :
        ts \in {None} \cup {Some(t) : t \in PipeTimes}}
    \cup {StressMsg(Some(MillisPerDay + MillisPerSecond),
                    Some(4 * MillisPerDay - MillisPerSecond), Some(55)),
          StressMsg(Some(2 * MillisPerDay), None, Some(55))}

\* since and until as the file pipeline is run: unset, or days 2 and 3.
PipeBounds == [since : {None, Some(2)}, until : {None, Some(3)}]

\* The position in filelog of the file being read (the last one opened).
CurrentFile == Len(filelog)

\* Mutant: the stream is closed only when the file is read to its end.
StreamsAfterRaise_NoFinally(o, f) == o

\* finally: stream.close(), as an exception leaves parse_file
StreamsAfterRaise(o, f) == o \ {f}

\* finally: stream.close(), after the last record of the file
StreamsAfterLast(o, f) == o \ {f}

\* main: COMMANDS[args.command].cmd(args)
DumpBegin ==
    /\ command = "dump"
    /\ pc = "start"
    /\ pc' = "scan"
    /\ UNCHANGED <<command, args, tzoffset, stream, rows, rowidx, started_at,
                   finished_at, since, until, last_ts, last_ts_16, output,
                   plot, plotted, ds, filelog, open, yielded>>

\* parse_files takes the next file name; stream = Stream.from_file(file_name)
FileOpen ==
    /\ command = "dump"
    /\ pc = "scan"
    /\ \A i \in DOMAIN filelog : filelog[i] \notin {"open", "reading"}
    /\ Len(filelog) < MaxFiles
    /\ filelog' = Append(filelog, "open")
    /\ open' = open \cup {Len(filelog) + 1}
    /\ UNCHANGED <<command, args, tzoffset, pc, stream, rows, rowidx,
                   started_at, finished_at, since, until, last_ts, last_ts_16,
                   output, plot, plotted, ds, yielded>>

\* decoder.is_fit() is false: ValueError leaves parse_file, parse_files, the
\* command and main, which catches KeyboardInterrupt and BrokenPipeError only.
FileNotFit ==
    /\ command = "dump"
    /\ pc = "scan"
    /\ filelog # <<>> /\ filelog[CurrentFile] = "open"
    /\ filelog' = [filelog EXCEPT ![CurrentFile] = "notfit"]
    /\ open' = StreamsAfterRaise(open, CurrentFile)
    /\ pc' = "fault"
    /\ UNCHANGED <<command, args, tzoffset, stream, rows, rowidx, started_at,
                   finished_at, since, until, last_ts, last_ts_16, output,
                   plot, plotted, ds, yielded>>

\* decoder.read() returns errors: _read_from raises ValueError at the first.
FileErrors ==
    /\ command = "dump"
    /\ pc = "scan"
    /\ filelog # <<>> /\ filelog[CurrentFile] = "open"
    /\ filelog' = [filelog EXCEPT ![CurrentFile] = "errors"]
    /\ open' = StreamsAfterRaise(open, CurrentFile)
    /\ pc' = "fault"
    /\ UNCHANGED <<command, args, tzoffset, stream, rows, rowidx, started_at,
                   finished_at, since, until, last_ts, last_ts_16, output,
                   plot, plotted, ds, yielded>>

\* decoder.read() returns the messages and no error.
FileRead ==
    /\ command = "dump"
    /\ pc = "scan"
    /\ filelog # <<>> /\ filelog[CurrentFile] = "open"
    /\ filelog' = [filelog EXCEPT ![CurrentFile] = "reading"]
    /\ UNCHANGED <<command, args, tzoffset, pc, stream, rows, rowidx,
                   started_at, finished_at, since, until, last_ts, last_ts_16,
                   output, plot, plotted, ds, open, yielded>>

\* parse_file yields the next record of the file; parse_files passes it on
\* when its timestamp is within the bounds, and dump_messages prints it.
FileYield ==
    /\ command = "dump"
    /\ pc = "scan"
    /\ filelog # <<>> /\ filelog[CurrentFile] = "reading"
    /\ Len(stream) < MaxMsgs
    /\ \E msg \in PipeInputs :
         /\ stream' = Append(stream, msg)
         /\ yielded' = IF parse_files_yields(msg, args)
                       THEN Append(yielded, msg)
                       ELSE yielded
    /\ output' = yielded'
    /\ UNCHANGED <<command, args, tzoffset, pc, rows, rowidx, started_at,
                   finished_at, since, until, last_ts, last_ts_16, plot,
                   plotted, ds, filelog, open>>

\* The file has no more records: parse_file ends and closes the stream.
FileClose ==
    /\ command = "dump"
    /\ pc = "scan"
    /\ filelog # <<>> /\ filelog[CurrentFile] = "reading"
    /\ filelog' = [filelog EXCEPT ![CurrentFile] = "done"]
    /\ open' = StreamsAfterLast(open, CurrentFile)
    /\ UNCHANGED <<command, args, tzoffset, pc, stream, rows, rowidx,
                   started_at, finished_at, since, until, last_ts, last_ts_16,
                   output, plot, plotted, ds, yielded>>

\* There is no further file name: the command returns.
DumpEnd ==
    /\ command = "dump"
    /\ pc = "scan"
    /\ \A i \in DOMAIN filelog : filelog[i] = "done"
    /\ pc' = "done"
    /\ UNCHANGED <<command, args, tzoffset, stream, rows, rowidx, started_at,
                   finished_at, since, until, last_ts, last_ts_16, output,
                   plot, plotted, ds, filelog, open, yielded>>

\* The dump command over a batch of files, with or without bounds.
InitFiles ==
    /\ command = "dump"
    /\ args \in PipeBounds
    /\ plot = FALSE
    /\ tzoffset \in TzOffsets
    /\ InitLocals

NextFiles ==
    \/ DumpBegin
    \/ FileOpen
    \/ FileNotFit
    \/ FileErrors
    \/ FileRead
    \/ FileYield
    \/ FileClose
    \/ DumpEnd

SpecFiles == InitFiles /\ [][NextFiles]_vars

----------------------------------------------------------------------------
(* plot_steps_history                                                      *)

ActivityTypes == {"running", "walking"}

\* Instants of the monitoring records: 13:01:40.5 on day 0, 02:03:21 on day 1.
StepsTimes == {46900500, 93801000}

\* Snapshots (steps, active_calories, distance in millimetres).
Snapshots == {<<100, 10, 1234>>, <<150, 20, 2503>>}

StepsMsgOf(ts, at, st, ac, di) ==
    [Msg("monitoring_mesgs", "", ts, None, None, None)
        EXCEPT !.activity_type = at, !.steps = st, !.active_calories = ac,
               !.distance = di]

\* Complete records, and records that lack one field each.
StepsInputs ==
    {StepsMsgOf(Some(t), Some(a), Some(n[1]), Some(n[2]), Some(n[3])) :
        t \in StepsTimes, a \in ActivityTypes, n \in Snapshots}
    \cup {StepsMsgOf(None, Some("running"), Some(100), Some(10), Some(1234)),
          StepsMsgOf(Some(46900500), Some("running"), Some(100), None, Some(1234)),
          StepsMsgOf(Some(46900500), Some("running"), Some(100), Some(10), None),
          StepsMsgOf(Some(46900500), Some("running"), None, Some(10), Some(1234)),
          StepsMsgOf(Some(46900500), None, Some(100), Some(10), Some(1234))}

ActivityRecord(ac, di, st) ==
    [active_calories |-> ac, distance |-> di, steps |-> st]

\* Mutant: a snapshot is added to the one already stored under its key.
StepsUpsert_Accumulate(d, day, at, rec) ==
    LET old == IF day \in DOMAIN d THEN d[day] ELSE <<>>
        new == IF at \in DOMAIN old
               THEN ActivityRecord(old[at].active_calories + rec.active_calories,
                                   old[at].distance + rec.distance,
                                   old[at].steps + rec.steps)
               ELSE rec
    IN  [k \in DOMAIN d \cup {day} |->
            IF k = day
            THEN [a \in DOMAIN old \cup {at} |-> IF a = at THEN new ELSE old[a]]
            ELSE d[k]]

\* ds[ts][msg["activity_type"]] = ActivityRecord(...), ds a defaultdict(dict)
StepsUpsert(d, day, at, rec) ==
    LET old == IF day \in DOMAIN d THEN d[day] ELSE <<>>
    IN  [k \in DOMAIN d \cup {day} |->
            IF k = day
            THEN [a \in DOMAIN old \cup {at} |-> IF a = at THEN rec ELSE old[a]]
            ELSE d[k]]

\* The body of the loop over parse_files(args). msg.timestamp.date() raises
\* AttributeError without a timestamp, and msg["active_calories"] and
\* msg["distance"] raise KeyError, before ds is touched.
StepsStep(st, msg) ==
    IF msg.group_name = "monitoring_mesgs"
       /\ has_fields(msg, {"steps", "activity_type"})
    THEN IF timestamp(msg) = None \/ ~has_fields(msg, {"active_calories", "distance"})
         THEN [st EXCEPT !.pc = "fault"]
         ELSE [st EXCEPT !.ds = StepsUpsert(@, Date(Val(timestamp(msg))),
                                            Val(msg.activity_type),
                                            ActivityRecord(Val(msg.active_calories),
                                                           Val(msg.distance),
                                                           Val(msg.steps)))]
    ELSE st

\* sum(r.<fld> for r in day.values())
RECURSIVE SumOver(_, _, _)
SumOver(day, keys, fld) ==
    IF keys = {} THEN 0
    ELSE LET a == CHOOSE a \in keys : TRUE
         IN  day[a][fld] + SumOver(day, keys \ {a}, fld)

\* sorted(ds.keys())
RECURSIVE SortedKeys(_)
SortedKeys(keys) ==
    IF keys = {} THEN <<>>
    ELSE LET k == CHOOSE k \in keys : \A l \in keys : k <= l
         IN  <<k>> \o SortedKeys(keys \ {k})

\* The line printed for the day k: the date, active_calories, the distance
\* rounded to 2 decimals (in hundredths of a metre) and the steps.
StepsLine(d, k) ==
    <<k, SumOver(d[k], DOMAIN d[k], "active_calories"),
      RoundHundredths(SumOver(d[k], DOMAIN d[k], "distance"), MillisPerSecond),
      SumOver(d[k], DOMAIN d[k], "steps")>>

StepsOutput(d) ==
    LET ks == SortedKeys(DOMAIN d)
    IN  [i \in DOMAIN ks |-> StepsLine(d, ks[i])]

StepsState == [pc |-> pc, ds |-> ds]

StepsBegin ==
    /\ command = "steps"
    /\ pc = "start"
    /\ pc' = "scan"
    /\ ds' = <<>>
    /\ UNCHANGED <<command, args, tzoffset, stream, rows, rowidx, started_at,
                   finished_at, since, until, last_ts, last_ts_16, output,
                   plot, plotted, filelog, open, yielded>>

StepsMsg ==
    /\ command = "steps"
    /\ pc = "scan"
    /\ Len(stream) < MaxMsgs
    /\ \E msg \in StepsInputs :
         LET st == IF parse_files_yields(msg, args)
                   THEN StepsStep(StepsState, msg)
                   ELSE StepsState
         IN  /\ stream' = Append(stream, msg)
             /\ pc' = st.pc
             /\ ds' = st.ds
    /\ UNCHANGED <<command, args, tzoffset, rows, rowidx, started_at,
                   finished_at, since, until, last_ts, last_ts_16, output,
                   plot, plotted, filelog, open, yielded>>

\* The stream is exhausted: the days are printed, and plotted when there is
\* a day and --plot was given (avg = float(total) / days with days >= 1).
StepsEnd ==
    /\ command = "steps"
    /\ pc = "scan"
    /\ pc' = "done"
    /\ output' = StepsOutput(ds)
    /\ plotted' = (DOMAIN ds # {} /\ plot)
    /\ UNCHANGED <<command, args, tzoffset, stream, rows, rowidx, started_at,
                   finished_at, since, until, last_ts, last_ts_16, plot, ds,
                   filelog, open, yielded>>

\* The steps command, run without --since and --until.
InitSteps ==
    /\ command = "steps"
    /\ args = NoBounds
    /\ plot \in BOOLEAN
    /\ tzoffset \in TzOffsets
    /\ InitLocals

NextSteps == StepsBegin \/ StepsMsg \/ StepsEnd

SpecSteps == InitSteps /\ [][NextSteps]_vars

----------------------------------------------------------------------------
(* plot_stress_history                                                     *)

StressLevels == {-1, 0, 55, 101}

\* Instants of the stress records: 13:01:40.5 on day 0, 02:03:21 on day 1.
StressTimes == {46900500, 93801000}

\* Stress records with a time and a level, one without stress_level_time,
\* one without stress_level_value, and a record of another group.
StressInputs ==
    {StressMsg(None, Some(t), Some(v)) : t \in StressTimes, v \in StressLevels}
    \cup {StressMsg(Some(46900500), None, Some(55)),
          StressMsg(None, Some(46900500), None),
          OtherMsg}

\* Mutant: the level 0 is dropped with the negative ones.
StressKeeps_Positive(val) == val > 0

\* if val < 0: continue
StressKeeps(val) == ~(val < 0)

\* The body of the loop over parse_files(args). msg.timestamp.astimezone()
\* raises AttributeError without stress_level_time, msg["stress_level_value"]
\* raises KeyError; astimezone() keeps the instant (here in milliseconds).
StressStep(st, msg, tz) ==
    IF msg.group_name = "stress_level_mesgs"
    THEN IF timestamp(msg) = None \/ msg.stress_level_value = None
         THEN [st EXCEPT !.pc = "fault"]
         ELSE IF StressKeeps(Val(msg.stress_level_value))
              THEN [st EXCEPT !.rows =
                       Append(@, <<LocalDatetime(Val(timestamp(msg)), tz),
                                   Val(msg.stress_level_value)>>)]
              ELSE st
    ELSE st

StressState == [pc |-> pc, rows |-> rows]

StressBegin ==
    /\ command = "stress"
    /\ pc = "start"
    /\ pc' = "scan"
    /\ rows' = <<>>
    /\ UNCHANGED <<command, args, tzoffset, stream, rowidx, started_at,
                   finished_at, since, until, last_ts, last_ts_16, output,
                   plot, plotted, ds, filelog, open, yielded>>

StressRead ==
    /\ command = "stress"
    /\ pc = "scan"
    /\ Len(stream) < MaxMsgs
    /\ \E msg \in StressInputs :
         LET st == IF parse_files_yields(msg, args)
                   THEN StressStep(StressState, msg, tzoffset)
                   ELSE StressState
         IN  /\ stream' = Append(stream, msg)
             /\ pc' = st.pc
             /\ rows' = st.rows
    /\ UNCHANGED <<command, args, tzoffset, rowidx, started_at, finished_at,
                   since, until, last_ts, last_ts_16, output, plot, plotted,
                   ds, filelog, open, yielded>>

\* The stream is exhausted: the table is printed, and with --plot handed to
\* plot_hourly_data_with_lines as table[:, 0] and table[:, 1].
StressEnd ==
    /\ command = "stress"
    /\ pc = "scan"
    /\ output' = rows
    /\ pc' = IF plot THEN HourlyPlot(rows).pc ELSE "done"
    /\ plotted' = (plot /\ HourlyPlot(rows).plotted)
    /\ UNCHANGED <<command, args, tzoffset, stream, rows, rowidx, started_at,
                   finished_at, since, until, last_ts, last_ts_16, plot, ds,
                   filelog, open, yielded>>

\* The stress command, with and without --since.
InitStress ==
    /\ command = "stress"
    /\ args \in [since : {None} \cup {Some(d) : d \in BoundDates}, until : {None}]
    /\ plot \in BOOLEAN
    /\ tzoffset \in TzOffsets
    /\ InitLocals

NextStress == StressBegin \/ StressRead \/ StressEnd

SpecStress == InitStress /\ [][NextStress]_vars

----------------------------------------------------------------------------
(* Vocabulary of the sleep claims                                          *)

IsStart(m) == m.group_name = "event_mesgs" /\ m.event_type = "start"
IsStop(m) == m.group_name = "event_mesgs" /\ m.event_type = "stop"
IsScore(m) == m.group_name = "sleep_assessment_mesgs"
Timed(m) == m.timestamp # None
At(m) == Val(m.timestamp)

\* The extractor state the specification assigns to a stream read so far.
RECURSIVE ExtractorState(_)
ExtractorState(s) ==
    IF s = <<>> THEN "IDLE"
    ELSE LET before == ExtractorState(SubSeq(s, 1, Len(s) - 1))
             m == s[Len(s)]
         IN  IF IsStart(m) THEN "OPEN"
             ELSE IF IsStop(m) /\ before = "OPEN" THEN "AWAITING_SCORE"
             ELSE IF IsScore(m) /\ before = "AWAITING_SCORE" THEN "IDLE"
             ELSE before

\* The position of the last start record before position i (0: none).
LastStartBefore(s, i) ==
    LET js == {j \in 1..(i - 1) : IsStart(s[j])}
    IN  IF js = {} THEN 0 ELSE CHOOSE j \in js : \A l \in js : l <= j

\* The stop records that close a session: a stop with a timestamp whose
\* last preceding start has a timestamp.
PairedStops(s) ==
    {i \in DOMAIN s :
        /\ IsStop(s[i]) /\ Timed(s[i])
        /\ LastStartBefore(s, i) # 0
        /\ Timed(s[LastStartBefore(s, i)])}

\* C1: the stream start@T0, stop@T1 (T0 <= T1), score s gives exactly one
\* session, whose ended_at is date(T1) and whose score is s.
C1_StartStopScore ==
    (/\ Len(stream) = 3
     /\ IsStart(stream[1]) /\ Timed(stream[1])
     /\ IsStop(stream[2]) /\ Timed(stream[2])
     /\ At(stream[1]) <= At(stream[2])
     /\ IsScore(stream[3]) /\ stream[3].overall_sleep_score # None)
    => /\ pc # "fault"
       /\ Len(rows) = 1
       /\ rows[1][1] = Date(At(stream[2]))
       /\ rows[1][3] = Val(stream[3].overall_sleep_score)
       /\ (pc = "done" => output = rows)

C1_Witness ==
    /\ pc = "done"
    /\ Len(stream) = 3
    /\ IsStart(stream[1]) /\ Timed(stream[1]) /\ Date(At(stream[1])) = 0
    /\ IsStop(stream[2]) /\ Timed(stream[2]) /\ Date(At(stream[2])) = 1
    /\ IsScore(stream[3]) /\ stream[3].overall_sleep_score = Some(7)
    /\ Len(output) = 1 /\ output[1][1] = 1 /\ output[1][3] = 7

\* C2: a stop emits a session only when a start was seen since the previous
\* stop: the sessions never outnumber the start events, and start, stop,
\* stop emits exactly one session.
C2_StopNeedsOpen ==
    /\ Len(rows) <= Cardinality({i \in DOMAIN stream : IsStart(stream[i])})
    /\ (/\ Len(stream) = 3
        /\ IsStart(stream[1]) /\ Timed(stream[1])
        /\ IsStop(stream[2]) /\ Timed(stream[2])
        /\ IsStop(stream[3]) /\ Timed(stream[3]))
       => Len(rows) = 1

\* C3: a score record changes the emitted sessions only while the extractor
\* is AWAITING_SCORE (and attaching it leaves that state).
C3_ScoreOnlyWhileAwaiting ==
    [][(/\ Len(stream') = Len(stream) + 1
        /\ \A i \in DOMAIN stream :
              stream[i].group_name = "event_mesgs" => Timed(stream[i])
        /\ IsScore(stream'[Len(stream')])
        /\ rows' # rows)
       => ExtractorState(stream) = "AWAITING_SCORE"]_vars

\* C4 as stated: every session of the final output has had a score record
\* attached (a session left dangling at the end of the stream is dropped).
C4_NoDanglingSession ==
    pc = "done" =>
        \A k \in DOMAIN output :
            \E j \in (rowidx[k] + 1)..Len(stream) : IsScore(stream[j])

\* C4 amended: a start left open at the end of the stream gives no session
\* (the sessions are exactly the stops that closed a start), and a session
\* whose stop no score record follows is in the output with the score 0.
C4_DanglingAmended ==
    pc = "done" =>
        /\ Len(output) = Cardinality(PairedStops(stream))
        /\ {rowidx[k] : k \in DOMAIN rowidx} = PairedStops(stream)
        /\ \A k \in DOMAIN output :
              (\A j \in (rowidx[k] + 1)..Len(stream) : ~IsScore(stream[j]))
              => output[k][3] = 0

C4_Witness ==
    /\ pc = "done"
    /\ Len(stream) = 3
    /\ IsStart(stream[1]) /\ IsStop(stream[2]) /\ IsStart(stream[3])
    /\ Timed(stream[3])
    /\ Len(output) = 1
    /\ output[1][3] = 0

\* C5: start@T0, start@T1 gives no session, and a following stop@T2 gives
\* exactly one session, whose duration is measured from T1.
C5_RestartAbandons ==
    (/\ Len(stream) >= 2
     /\ IsStart(stream[1]) /\ Timed(stream[1])
     /\ IsStart(stream[2]) /\ Timed(stream[2]))
    => /\ Len(stream) = 2 => (rows = <<>> /\ (pc = "done" => output = <<>>))
       /\ (Len(stream) = 3 /\ IsStop(stream[3]) /\ Timed(stream[3]))
          => /\ Len(rows) = 1
             /\ rows[1][2] = SleepDuration(At(stream[2]), At(stream[3]))
             /\ (pc = "done" => output = rows)

C5_Witness ==
    /\ pc = "done"
    /\ Len(stream) = 3
    /\ IsStart(stream[1]) /\ Timed(stream[1])
    /\ IsStart(stream[2]) /\ Timed(stream[2])
    /\ IsStop(stream[3]) /\ Timed(stream[3])
    /\ At(stream[1]) < At(stream[2]) /\ At(stream[2]) < At(stream[3])
    /\ Len(output) = 1
    /\ output[1][2] = SleepDuration(At(stream[2]), At(stream[3]))
    /\ output[1][2] # SleepDuration(At(stream[1]), At(stream[3]))

\* C6: the duration of every session is the total time from its start to
\* its stop, in hours rounded to 2 decimals (here for a stop that is not
\* earlier than its start), also when they are 24 hours or more apart.
C6_DurationTotalSeconds ==
    \A k \in DOMAIN rows :
        LET i == rowidx[k]
            j == LastStartBefore(stream, i)
        IN  At(stream[j]) <= At(stream[i])
            => rows[k][2] = RoundHundredths(At(stream[i]) - At(stream[j]),
                                            SecondsPerHour * MillisPerSecond)

----------------------------------------------------------------------------
(* Vocabulary of the pulse claims                                          *)

IsMonitoring(m) == m.group_name = "monitoring_mesgs"
IsSample(m) == IsMonitoring(m) /\ has_fields(m, {"timestamp_16", "heart_rate"})
IsFull(m) == IsMonitoring(m) /\ has_fields(m, {"timestamp"})

\* The state of the scan after the records of s, read from state st with
\* args a, under the bounds s0 and u0.
RECURSIVE PulseScan(_, _, _, _, _, _)
PulseScan(s, st, a, s0, u0, tz) ==
    IF s = <<>> THEN st
    ELSE LET before == PulseScan(SubSeq(s, 1, Len(s) - 1), st, a, s0, u0, tz)
             m == s[Len(s)]
         IN  IF before.pc = "scan" /\ parse_files_yields(m, a)
             THEN PulseStep(before, m, s0, u0, tz)
             ELSE before

\* The pulse command run on the records s with the arguments a.
PulseRun(s, a, tz) ==
    PulseScan(s, [pc |-> "scan", rows |-> <<>>, last_ts |-> None,
                  last_ts_16 |-> None],
              PulseScanArgs(a), a.since, a.until, tz)

\* C7: a heart-rate record that precedes every record with a full timestamp
\* is dropped: it emits no sample and raises no fault.
C7_OrphanSampleDropped ==
    \A i \in DOMAIN stream :
        (IsSample(stream[i]) /\ \A j \in 1..i : ~IsFull(stream[j]))
        => /\ pc # "fault"
           /\ \A k \in DOMAIN rowidx : rowidx[k] # i

\* C8: a heart-rate record whose counter does not exceed the previous
\* counter of the epoch is given the instant last_full, exactly; so is the
\* first sample of an epoch (there is no previous counter).
C8_ResetKeepsLastFull ==
    [][(/\ pc = "scan"
        /\ Len(stream') = Len(stream) + 1
        /\ IsSample(stream'[Len(stream')]))
       => LET m == stream'[Len(stream')]
              anchor == IF IsFull(m)
                        THEN Some(TimestampSeconds(Val(m.timestamp)))
                        ELSE last_ts
              prev16 == IF IsFull(m) THEN None ELSE last_ts_16
          IN  (/\ anchor # None
               /\ prev16 # None => Val(prev16) >= Val(m.timestamp_16))
              => /\ pc' = "scan"
                 /\ last_ts' = anchor
                 /\ Len(rows') > Len(rows)
                    => rows'[Len(rows')][1].instant = Val(anchor)]_vars

C8_Witness ==
    /\ pc = "done"
    /\ Len(stream) = 3
    /\ IsFull(stream[1]) /\ ~IsSample(stream[1])
    /\ IsSample(stream[2]) /\ ~IsFull(stream[2])
    /\ IsSample(stream[3]) /\ ~IsFull(stream[3])
    /\ Val(stream[2].timestamp_16) > Val(stream[3].timestamp_16)
    /\ Len(output) = 2
    /\ output[1][1].instant = TimestampSeconds(Val(stream[1].timestamp))
    /\ output[2][1].instant = output[1][1].instant

\* C9: between two records with a full timestamp the instants of the
\* emitted samples never decrease.
C9_MonotoneWithinEpoch ==
    \A k, l \in DOMAIN rows :
        (/\ k < l
         /\ \A j \in (rowidx[k] + 1)..rowidx[l] : ~IsFull(stream[j]))
        => rows[k][1].instant <= rows[l][1].instant

C9_Witness ==
    /\ Len(rows) = 3
    /\ \A j \in (rowidx[1] + 1)..rowidx[3] : ~IsFull(stream[j])
    /\ Val(stream[rowidx[1]].timestamp_16) < Val(stream[rowidx[2]].timestamp_16)
    /\ Val(stream[rowidx[2]].timestamp_16) > Val(stream[rowidx[3]].timestamp_16)
    /\ rows[1][1].instant < rows[2][1].instant
    /\ rows[2][1].instant = rows[3][1].instant

\* C10: the samples emitted under the bounds are the samples emitted
\* without bounds whose local date lies within them, in the same order and
\* with the same instants; the bounds do not change last_ts and last_ts_16.
C10_BoundsAfterReconstruction ==
    pc # "start" =>
        LET ref == PulseRun(stream, NoBounds, tzoffset)
            Within(r) == /\ since # None => Val(since) <= LocalDate(r[1])
                         /\ until # None => LocalDate(r[1]) <= Val(until)
        IN  /\ rows = SelectSeq(ref.rows, Within)
            /\ last_ts = ref.last_ts
            /\ last_ts_16 = ref.last_ts_16
            /\ (pc = "fault") = (ref.pc = "fault")
            /\ pc = "done" => output = rows

C10_Witness ==
    /\ pc = "done"
    /\ since = Some(1) /\ until = Some(1)
    /\ Len(PulseRun(stream, NoBounds, tzoffset).rows) = 3
    /\ Len(output) = 1
    /\ output[1] = PulseRun(stream, NoBounds, tzoffset).rows[2]

----------------------------------------------------------------------------
(* The file pipeline claims                                                *)

\* C11: a file that is not a valid container, or whose decoder reports
\* errors, is skipped: it does not terminate the command.
C11_BadFileSkipped ==
    \A i \in DOMAIN filelog : filelog[i] \in {"notfit", "errors"} => pc # "fault"

\* The filter as the claim words it, for the bounds s and u.
ClaimPasses(m, s, u) ==
    LET t == IF m.group_name = "stress_level_mesgs"
             THEN m.stress_level_time
             ELSE m.timestamp
    IN  \/ t = None
        \/ /\ (s = None \/ Val(s) <= Date(Val(t)))
           /\ (u = None \/ Date(Val(t)) <= Val(u))

\* C15: a record passes the stream filter iff it has no resolvable
\* timestamp or its date lies within since and until, both inclusive; a
\* stress record is dated by stress_level_time; the order is kept.
C15_FilterInclusive ==
    LET Passes(m) == ClaimPasses(m, args.since, args.until)
    IN  yielded = SelectSeq(stream, Passes)

C15_Witness ==
    /\ pc = "done"
    /\ args = [since |-> Some(2), until |-> Some(3)]
    /\ Len(stream) = 4
    /\ \A i \in 1..4 : stream[i].group_name = "monitoring_mesgs"
                       /\ stream[i].timestamp # None
                       /\ Date(Val(stream[i].timestamp)) = i
    /\ yielded = SubSeq(stream, 2, 3)

\* C16: at most one file stream is open at any time, a file is opened only
\* when every earlier file is finished with, and no stream is open once
\* the command has ended, normally or by a file's failure.
C16_OneStreamClosedAtEnd ==
    /\ Cardinality(open) <= 1
    /\ open = {i \in DOMAIN filelog : filelog[i] \in {"open", "reading"}}
    /\ \A i \in DOMAIN filelog :
          i < Len(filelog) => filelog[i] \in {"done", "notfit", "errors"}
    /\ pc \in {"done", "fault"} => open = {}

C16_Witness ==
    /\ pc = "fault"
    /\ filelog = <<"done", "errors">>
    /\ Len(stream) = 2
    /\ open = {}

----------------------------------------------------------------------------
(* The steps claims                                                        *)

\* A monitoring record the aggregator takes.
IsSnapshot(m) ==
    m.group_name = "monitoring_mesgs" /\ has_fields(m, {"steps", "activity_type"})

\* A snapshot with every field the aggregator reads.
IsWhole(m) ==
    IsSnapshot(m) /\ has_fields(m, {"timestamp", "active_calories", "distance"})

\* The positions in s of the whole snapshots with the key (day, at).
SnapshotsOf(s, day, at) ==
    {i \in DOMAIN s : /\ IsWhole(s[i])
                      /\ Date(Val(s[i].timestamp)) = day
                      /\ Val(s[i].activity_type) = at}

LastOf(S) == CHOOSE i \in S : \A j \in S : j <= i

\* The steps of the last snapshot of the key (day, at) in s (0: none).
LastSteps(s, day, at) ==
    IF SnapshotsOf(s, day, at) = {} THEN 0
    ELSE Val(s[LastOf(SnapshotsOf(s, day, at))].steps)

\* C12: a record of the view's group that lacks a field the derivation
\* reads is left out without an error.
C12_MissingFieldExcluded ==
    \A i \in DOMAIN stream :
        (IsSnapshot(stream[i]) /\ ~IsWhole(stream[i])) => pc # "fault"

\* C14: each (date, activity_type) key holds the values of the last record
\* that carried it, and the total reported for a day is the sum of these
\* last snapshots over the activity types.
C14_LastSnapshotWins ==
    /\ \A day \in 0..1 : \A at \in ActivityTypes :
          LET S == SnapshotsOf(stream, day, at)
          IN  IF S = {}
              THEN ~(day \in DOMAIN ds /\ at \in DOMAIN ds[day])
              ELSE /\ day \in DOMAIN ds /\ at \in DOMAIN ds[day]
                   /\ ds[day][at] =
                        ActivityRecord(Val(stream[LastOf(S)].active_calories),
                                       Val(stream[LastOf(S)].distance),
                                       Val(stream[LastOf(S)].steps))
    /\ pc = "done" =>
          /\ Len(output) = Cardinality(DOMAIN ds)
          /\ \A k \in DOMAIN output :
                output[k][4] = LastSteps(stream, output[k][1], "running")
                               + LastSteps(stream, output[k][1], "walking")

C14_Witness ==
    /\ pc = "done"
    /\ Len(stream) = 3
    /\ \A i \in 1..3 : IsWhole(stream[i]) /\ Date(Val(stream[i].timestamp)) = 1
    /\ stream[1].activity_type = Some("running") /\ stream[1].steps = Some(100)
    /\ stream[2].activity_type = Some("running") /\ stream[2].steps = Some(150)
    /\ stream[3].activity_type = Some("walking") /\ stream[3].steps = Some(100)
    /\ ds[1]["running"].steps = 150
    /\ output = <<<<1, 30, 374, 250>>>>

----------------------------------------------------------------------------
(* The stress claim                                                        *)

\* A stress record that reaches the derivation with a time and a level.
IsStressSample(m) ==
    /\ m.group_name = "stress_level_mesgs"
    /\ m.stress_level_time # None
    /\ m.stress_level_value # None
    /\ ClaimPasses(m, args.since, args.until)

NonNegative(m) == IsStressSample(m) /\ Val(m.stress_level_value) >= 0

\* C17: the emitted stress samples are, in input order, the stress records
\* whose level is not negative, each with its own time and level, whatever
\* came before it.
C17_StressNonNegative ==
    LET kept == SelectSeq(stream, NonNegative)
    IN  /\ Len(rows) = Len(kept)
        /\ \A i \in DOMAIN rows :
              /\ rows[i][1].instant = Val(kept[i].stress_level_time)
              /\ rows[i][2] = Val(kept[i].stress_level_value)
        /\ pc = "done" => output = rows

C17_Witness ==
    /\ pc = "done"
    /\ Len(stream) = 4
    /\ \A i \in 1..4 : IsStressSample(stream[i])
    /\ [i \in 1..4 |-> Val(stream[i].stress_level_value)] = <<-1, 0, 55, 101>>
    /\ [i \in 1..3 |-> output[i][2]] = <<0, 55, 101>>

----------------------------------------------------------------------------
(* The pulse claims on epochs, empty tables and the argument object        *)

\* Whether a record with a full timestamp is at or before position i.
HasEpoch(s, i) == \E j \in 1..i : IsFull(s[j])

\* The position of the last record with a full timestamp at or before i.
EpochStart(s, i) ==
    CHOOSE j \in 1..i : IsFull(s[j]) /\ \A k \in (j + 1)..i : ~IsFull(s[k])

\* The positions of the heart-rate samples of the epoch, up to i.
EpochSamples(s, i) == {k \in EpochStart(s, i)..i : IsSample(s[k])}

FirstOf(S) == CHOOSE i \in S : \A j \in S : i <= j

Counter(m) == Val(m.timestamp_16)

\* C13: with no eligible record in the stream the command ends without a
\* fault and the plot is not drawn, with and without --plot.
C13_EmptyResultNoFault ==
    (\A i \in DOMAIN stream : ~IsSample(stream[i]))
        => (pc # "fault" /\ ~plotted)

\* C18: while the counters of an epoch strictly increase, each sample lies
\* at floor(F) plus the distance of its counter from the first counter of
\* the epoch; the first sample of an epoch lies at floor(F).
C18_DeltasChain ==
    \A k \in DOMAIN rows :
        LET i == rowidx[k]
            S == EpochSamples(stream, i)
        IN  (/\ HasEpoch(stream, i)
             /\ \A a, b \in S : a < b => Counter(stream[a]) < Counter(stream[b]))
            => rows[k][1].instant =
                  TimestampSeconds(Val(stream[EpochStart(stream, i)].timestamp))
                  + (Counter(stream[i]) - Counter(stream[FirstOf(S)]))

C18_Witness ==
    /\ pc = "done"
    /\ Len(stream) = 4
    /\ IsFull(stream[1]) /\ ~IsSample(stream[1])
    /\ \A i \in 2..4 : IsSample(stream[i]) /\ ~IsFull(stream[i])
    /\ [i \in 1..3 |-> Counter(stream[i + 1])] = <<5, 300, 65535>>
    /\ [i \in 1..3 |-> output[i][1].instant
                        - TimestampSeconds(Val(stream[1].timestamp))]
          = <<0, 295, 65530>>

\* C20: when the pulse command has ended, args.since and args.until hold
\* what they held when it started.
C20_ArgsUnchanged ==
    (command = "pulse" /\ pc \in {"done", "fault"})
        => (args.since = since /\ args.until = until)

----------------------------------------------------------------------------
(* The sleep claim on date ranges                                          *)

\* The state of the sleep scan after the records of s, read from state st
\* with args a.
RECURSIVE SleepScan(_, _, _)
SleepScan(s, st, a) ==
    IF s = <<>> \/ st.pc = "fault" THEN st
    ELSE SleepScan(Tail(s),
                   IF parse_files_yields(Head(s), a)
                   THEN SleepStep(st, Head(s))
                   ELSE st,
                   a)

SleepRun(s, a) ==
    SleepScan(s, [pc |-> "scan", rows |-> <<>>, started_at |-> None,
                  finished_at |-> None], a)

\* Whether the session r ended on a date within the bounds of a.
StopWithin(r, a) ==
    /\ (a.since = None \/ Val(a.since) <= r[1])
    /\ (a.until = None \/ r[1] <= Val(a.until))

\* C19: the sessions reported under date bounds are the sessions reported
\* without bounds that ended on a date within the bounds, with the same
\* duration and score.
C19_BoundedIsRestriction ==
    LET free == SleepRun(stream, NoBounds)
        Within(r) == StopWithin(r, args)
    IN  (pc = "done" /\ free.pc # "fault")
            => output = SelectSeq(SleepOutput(free.rows), Within)

====
